---- MODULE Spec2Model ----
(***************************************************************************)
(* Load-balancing simulation (Simulation.py): the routing policies, the    *)
(* threaded harness run_simulation and the experiment driver loop.         *)
(*                                                                         *)
(* Servers are numbered 1..n in pool order.  A bandwidth is kept in units  *)
(* of 1/BwDen bytes per second, so that int(bandwidth) truncates and       *)
(* bandwidths below 1 exist.  The Server class (reset, receive_request,    *)
(* process, estimate_latency) is not part of Simulation.py; it is modelled *)
(* from its specification.                                                 *)
(***************************************************************************)
EXTENDS Integers, Sequences, FiniteSets, TLC

\* ------------------------------------------------------------------ bounds
MaxServers == 2
MaxRequests == 3
MaxSelections == 12
BwDen == 2

\* bandwidths (in 1/BwDen) and request sizes the inputs are drawn from
Bandwidths == {2, 5}
Sizes == {1, 2}

VARIABLES
  bandwidth,         \* Server.bandwidth of each server of the pool, in 1/BwDen
  request_sizes,     \* the request sequence
  plan,              \* the algorithm names the caller passes, call after call
  pending_requests,  \* Server.pending_requests of each server
  result,            \* Server.result of each server
  rr_index,          \* counter captured by round_robin's closure
  idx,               \* counter captured by weighted_round_robin's closure
  requests,          \* requests[id]["algorithm"], the per-request trace
  summary,           \* the driver's summary, by algorithm name
  calls,             \* number of run_simulation calls made so far
  algorithm,         \* run_simulation's argument
  pc,                \* position of the main thread
  threads,           \* state of each started worker thread
  stop_event,        \* threading.Event of the run
  dpc,               \* position of the dispatcher thread (send_requests)
  sent,              \* number of loop iterations send_requests has completed
  keys,              \* keys min() has read so far in the current selection
  selected,          \* the server select_fn returned
  assigned,          \* history: the server each request of the run was enqueued on
  retval             \* what run_simulation returned

vars == <<bandwidth, request_sizes, plan, pending_requests, result, rr_index, idx,
          requests, summary, calls, algorithm, pc, threads, stop_event, dpc, sent,
          keys, selected, assigned, retval>>

config == <<bandwidth, request_sizes, plan>>

n == Len(bandwidth)
N == Len(request_sizes)
Pool == 1..n

\* Python's None for the algorithm name, and for a value not yet returned or
\* stored (a returned or stored value is kept as a non-empty tuple)
None == "None"
NoValue == <<>>

\* ---------------------------------------------------------------- helpers
RECURSIVE Repeat(_, _)
Repeat(x, count) == IF count <= 0 THEN <<>> ELSE <<x>> \o Repeat(x, count - 1)

RECURSIVE SumSeq(_)
SumSeq(s) == IF s = <<>> THEN 0 ELSE Head(s) + SumSeq(Tail(s))

\* a rational key <<num, den>>, den > 0
Less(a, b) == a[1] * b[2] < b[1] * a[2]

\* a selection that takes the first element whose key is maximal
FirstMin_Max(ks) ==
  CHOOSE i \in 1..Len(ks) :
    /\ \A j \in 1..Len(ks) : ~Less(ks[i], ks[j])
    /\ \A j \in 1..(i - 1) : Less(ks[j], ks[i])

\* a selection that takes the last element whose key is minimal
FirstMin_Last(ks) ==
  CHOOSE i \in 1..Len(ks) :
    /\ \A j \in 1..Len(ks) : ~Less(ks[j], ks[i])
    /\ \A j \in (i + 1)..Len(ks) : Less(ks[i], ks[j])

\* Python's min(iterable, key=...): the first element whose key is minimal
FirstMin(ks) ==
  CHOOSE i \in 1..Len(ks) :
    /\ \A j \in 1..Len(ks) : ~Less(ks[j], ks[i])
    /\ \A j \in 1..(i - 1) : Less(ks[i], ks[j])

\* ----------------------------------------------------------------- Server
\* Server.reset
reset == <<>>

\* Server.receive_request rejects a size that is not positive
InvalidRequest(size) == size <= 0

\* Server.receive_request: the queue after (id, size) joined its back
receive_request(queue, id, size) == Append(queue, <<id, size>>)

\* the record Server.process appends for a request: (id, server, latency)
process_record(s, req) == <<req[1], s, <<req[2] * BwDen, bandwidth[s]>> >>

\* Server.estimate_latency: aggregate pending bytes / bandwidth
estimate_latency(s) ==
  <<SumSeq([i \in 1..Len(pending_requests[s]) |-> pending_requests[s][i][2]]) * BwDen,
    bandwidth[s]>>

\* Server.total_requests
total_requests(s) == Len(result[s])

\* a fairness index without the server count in its denominator
fairness_index_NoCount(xs) ==
  IF SumSeq([i \in 1..Len(xs) |-> xs[i] * xs[i]]) = 0 THEN <<0, 1>>
  ELSE <<SumSeq(xs) * SumSeq(xs), SumSeq([i \in 1..Len(xs) |-> xs[i] * xs[i]])>>

\* calculate_metrics: Jain's fairness index of the per-server totals xs, as the
\* rational <<num, den>>; 0 when every total is 0
fairness_index(xs) ==
  IF SumSeq([i \in 1..Len(xs) |-> xs[i] * xs[i]]) = 0 THEN <<0, 1>>
  ELSE <<SumSeq(xs) * SumSeq(xs),
         Len(xs) * SumSeq([i \in 1..Len(xs) |-> xs[i] * xs[i]])>>

\* --------------------------------------------------------------- policies
\* an int(w) that rounds up
IntBandwidth_RoundUp(s) == (bandwidth[s] + BwDen - 1) \div BwDen

\* int(w) of a bandwidth
IntBandwidth(s) == bandwidth[s] \div BwDen

\* a round_robin that increments its counter before it indexes the pool
round_robin_preincrement(c) == ((c + 1) % n) + 1

\* round_robin.inner: the server chosen at counter value c
round_robin(c) == (c % n) + 1

\* weighted_round_robin: the flattened selection sequence
RECURSIVE WeightedFrom(_)
WeightedFrom(i) ==
  IF i > n THEN <<>> ELSE Repeat(i, IntBandwidth(i)) \o WeightedFrom(i + 1)

weighted_list == WeightedFrom(1)

\* a weighted_round_robin that ignores the weights
weighted_round_robin_unweighted(c) == (c % n) + 1

\* weighted_round_robin.inner: the server chosen at counter value c
weighted_round_robin(c) == weighted_list[(c % Len(weighted_list)) + 1]

\* key of least_connections
least_connections_key(s) == <<Len(pending_requests[s]), 1>>

\* key of my_optimizer
my_optimizer_key(s) == estimate_latency(s)

algorithm_map == {"Round Robin", "Weighted RR", "Least Conn", "Optimized"}

\* the driver's loop order, algorithm_map.keys()
DriverPlan == <<"Round Robin", "Weighted RR", "Least Conn", "Optimized">>

\* ------------------------------------------------------------------- Init
Pools(bws, lo) == UNION {[1..m -> bws] : m \in lo..MaxServers}
SizeSeqs(szs) == UNION {[1..m -> szs] : m \in 0..MaxRequests}

InitWith(pools, seqs, plans) ==
  /\ bandwidth \in pools
  /\ request_sizes \in seqs
  /\ plan \in plans
  /\ pending_requests = [s \in Pool |-> <<>>]
  /\ result = [s \in Pool |-> <<>>]
  /\ rr_index = 0
  /\ idx = 0
  /\ requests = [id \in 1..N |-> <<>>]
  /\ summary = [a \in algorithm_map |-> NoValue]
  /\ calls = 0
  /\ algorithm = None
  /\ pc = "idle"
  /\ threads = <<>>
  /\ stop_event = FALSE
  /\ dpc = "none"
  /\ sent = 0
  /\ keys = <<>>
  /\ selected = 0
  /\ assigned = <<>>
  /\ retval = NoValue

Init == InitWith(Pools(Bandwidths, 1), SizeSeqs(Sizes), {DriverPlan})

\* ------------------------------------------------------------ main thread
\* the driver's loop calls run_simulation with the next algorithm name
Call ==
  /\ pc = "idle"
  /\ calls < Len(plan)
  /\ plan[calls + 1] \in algorithm_map
  /\ calls' = calls + 1
  /\ algorithm' = plan[calls + 1]
  /\ pc' = "reset"
  /\ UNCHANGED <<config, pending_requests, result, rr_index, idx, requests, summary,
                 threads, stop_event, dpc, sent, keys, selected, assigned, retval>>

\* a run_simulation that does not reset the servers
ResetServers_NoReset ==
  /\ pc = "reset"
  /\ stop_event' = FALSE
  /\ threads' = <<>>
  /\ pc' = "start_workers"
  /\ UNCHANGED <<config, pending_requests, result, rr_index, idx, requests, summary,
                 calls, algorithm, dpc, sent, keys, selected, assigned, retval>>

\* for s in servers: s.reset(); stop_event = threading.Event()
ResetServers ==
  /\ pc = "reset"
  /\ pending_requests' = [s \in Pool |-> reset]
  /\ result' = [s \in Pool |-> reset]
  /\ stop_event' = FALSE
  /\ threads' = <<>>
  /\ pc' = "start_workers"
  /\ UNCHANGED <<config, rr_index, idx, requests, summary, calls, algorithm, dpc,
                 sent, keys, selected, assigned, retval>>

\* one iteration of the loop that starts a thread per server
StartWorker ==
  /\ pc = "start_workers"
  /\ Len(threads) < n
  /\ threads' = Append(threads, "running")
  /\ UNCHANGED <<config, pending_requests, result, rr_index, idx, requests, summary,
                 calls, algorithm, pc, stop_event, dpc, sent, keys, selected,
                 assigned, retval>>

\* a dispatcher started without waiting for the loop that starts the workers
StartDispatcher_First ==
  /\ pc = "start_workers"
  /\ dpc' = "select"
  /\ sent' = 0
  /\ pc' = "join_dispatcher"
  /\ UNCHANGED <<config, pending_requests, result, rr_index, idx, requests, summary,
                 calls, algorithm, threads, stop_event, keys, selected, assigned,
                 retval>>

\* request_thread = Thread(target=send_requests); request_thread.start()
StartDispatcher ==
  /\ pc = "start_workers"
  /\ Len(threads) = n
  /\ dpc' = "select"
  /\ sent' = 0
  /\ pc' = "join_dispatcher"
  /\ UNCHANGED <<config, pending_requests, result, rr_index, idx, requests, summary,
                 calls, algorithm, threads, stop_event, keys, selected, assigned,
                 retval>>

\* a join of the dispatcher that does not wait
JoinDispatcherGuard_NoWait == TRUE

\* request_thread.join() returns once the dispatcher thread has ended
JoinDispatcherGuard == dpc \in {"done", "raised"}

JoinDispatcher ==
  /\ pc = "join_dispatcher"
  /\ JoinDispatcherGuard
  /\ pc' = "set_stop"
  /\ UNCHANGED <<config, pending_requests, result, rr_index, idx, requests, summary,
                 calls, algorithm, threads, stop_event, dpc, sent, keys, selected,
                 assigned, retval>>

\* a harness that goes on to join the workers without raising the stop signal
SetStop_Forgotten ==
  /\ pc = "set_stop"
  /\ pc' = "join_workers"
  /\ UNCHANGED <<config, pending_requests, result, rr_index, idx, requests, summary,
                 calls, algorithm, threads, stop_event, dpc, sent, keys, selected,
                 assigned, retval>>

\* stop_event.set()
SetStop ==
  /\ pc = "set_stop"
  /\ stop_event' = TRUE
  /\ pc' = "join_workers"
  /\ UNCHANGED <<config, pending_requests, result, rr_index, idx, requests, summary,
                 calls, algorithm, threads, dpc, sent, keys, selected, assigned,
                 retval>>

\* the worker threads join() has returned for, in the order of the join loop
RECURSIVE JoinedUpTo(_)
JoinedUpTo(i) ==
  IF i > n \/ threads[i] = "running" THEN i - 1 ELSE JoinedUpTo(i + 1)

\* a join loop that does not wait for the workers
JoinWorkersGuard_NoWait == TRUE

\* every t.join() of the loop has returned
JoinWorkersGuard == JoinedUpTo(1) = n

\* for t in threads: t.join(), all of the loop
JoinWorkers ==
  /\ pc = "join_workers"
  /\ JoinWorkersGuard
  /\ pc' = "collect"
  /\ UNCHANGED <<config, pending_requests, result, rr_index, idx, requests, summary,
                 calls, algorithm, threads, stop_event, dpc, sent, keys, selected,
                 assigned, retval>>

\* the trace entry appended for a result record
TraceEntry(rec) == [name |-> algorithm, server |-> rec[2], latency |-> rec[3]]

\* requests after the records recs (in order) have been appended to the trace
RECURSIVE AppendTrace(_, _)
AppendTrace(reqs, recs) ==
  IF recs = <<>> THEN reqs
  ELSE AppendTrace(
         [reqs EXCEPT ![Head(recs)[1]] = Append(@, TraceEntry(Head(recs)))],
         Tail(recs))

\* all records of servers s..n, server after server
RECURSIVE AllRecords(_)
AllRecords(s) == IF s > n THEN <<>> ELSE result[s] \o AllRecords(s + 1)

\* for server in servers: for ... in server.result: requests[..]["algorithm"].append
Collect ==
  /\ pc = "collect"
  /\ requests' = AppendTrace(requests, AllRecords(1))
  /\ pc' = "metrics"
  /\ UNCHANGED <<config, pending_requests, result, rr_index, idx, summary, calls,
                 algorithm, threads, stop_event, dpc, sent, keys, selected, assigned,
                 retval>>

\* matrix = calculate_metrics(servers); summary = [...]; return matrix, summary
\* (kept: the total_requests of the summary, then the fairness index of the matrix)
Metrics ==
  /\ pc = "metrics"
  /\ retval' = <<[s \in Pool |-> total_requests(s)],
                 fairness_index([s \in Pool |-> total_requests(s)])>>
  /\ pc' = "returned"
  /\ UNCHANGED <<config, pending_requests, result, rr_index, idx, requests, summary,
                 calls, algorithm, threads, stop_event, dpc, sent, keys, selected,
                 assigned>>

\* the driver stores the returned values under summary[algorithm]; the frame of
\* run_simulation is gone
Store ==
  /\ pc = "returned"
  /\ summary' = [summary EXCEPT ![algorithm] = retval]
  /\ pc' = "idle"
  /\ algorithm' = None
  /\ retval' = NoValue
  /\ threads' = <<>>
  /\ stop_event' = FALSE
  /\ dpc' = "none"
  /\ sent' = 0
  /\ keys' = <<>>
  /\ selected' = 0
  /\ assigned' = <<>>
  /\ UNCHANGED <<config, pending_requests, result, rr_index, idx, requests, calls>>

\* ------------------------------------------------------------- dispatcher
\* select_fn(servers) for round_robin's closure
SelectRoundRobin ==
  /\ dpc = "select"
  /\ sent < N
  /\ algorithm = "Round Robin"
  /\ n > 0
  /\ selected' = round_robin(rr_index)
  /\ rr_index' = rr_index + 1
  /\ dpc' = "receive"
  /\ UNCHANGED <<config, pending_requests, result, idx, requests, summary, calls,
                 algorithm, pc, threads, stop_event, sent, keys, assigned, retval>>

\* select_fn(servers) for weighted_round_robin's closure
SelectWeighted ==
  /\ dpc = "select"
  /\ sent < N
  /\ algorithm = "Weighted RR"
  /\ Len(weighted_list) > 0
  /\ selected' = weighted_round_robin(idx)
  /\ idx' = idx + 1
  /\ dpc' = "receive"
  /\ UNCHANGED <<config, pending_requests, result, rr_index, requests, summary, calls,
                 algorithm, pc, threads, stop_event, sent, keys, assigned, retval>>

\* the key function of the running policy
KeyOf(s) ==
  IF algorithm = "Least Conn" THEN least_connections_key(s) ELSE my_optimizer_key(s)

\* min(servers, key=...) calls the key function on the next server of the pool
SelectMin ==
  /\ dpc = "select"
  /\ sent < N
  /\ algorithm \in {"Least Conn", "Optimized"}
  /\ Len(keys) < n
  /\ keys' = Append(keys, KeyOf(Len(keys) + 1))
  /\ UNCHANGED <<config, pending_requests, result, rr_index, idx, requests, summary,
                 calls, algorithm, pc, threads, stop_event, dpc, sent, selected,
                 assigned, retval>>

\* min() has read every key: select_fn returns the first server whose key is
\* minimal
SelectReturn ==
  /\ dpc = "select"
  /\ sent < N
  /\ algorithm \in {"Least Conn", "Optimized"}
  /\ n > 0
  /\ Len(keys) = n
  /\ selected' = FirstMin(keys)
  /\ dpc' = "receive"
  /\ UNCHANGED <<config, pending_requests, result, rr_index, idx, requests, summary,
                 calls, algorithm, pc, threads, stop_event, sent, keys, assigned,
                 retval>>

\* a dispatcher that hands the request to every server of the pool
Receive_Broadcast ==
  /\ dpc = "receive"
  /\ ~InvalidRequest(request_sizes[sent + 1])
  /\ pending_requests' =
       [s \in Pool |->
          receive_request(pending_requests[s], sent + 1, request_sizes[sent + 1])]
  /\ assigned' = Append(assigned, selected)
  /\ sent' = sent + 1
  /\ keys' = <<>>
  /\ dpc' = "select"
  /\ UNCHANGED <<config, result, rr_index, idx, requests, summary, calls, algorithm,
                 pc, threads, stop_event, selected, retval>>

\* a dispatcher that walks request_sizes from its last element to its first
Receive_Reversed ==
  /\ dpc = "receive"
  /\ ~InvalidRequest(request_sizes[N - sent])
  /\ pending_requests' =
       [pending_requests EXCEPT
          ![selected] = receive_request(@, N - sent, request_sizes[N - sent])]
  /\ assigned' = Append(assigned, selected)
  /\ sent' = sent + 1
  /\ keys' = <<>>
  /\ dpc' = "select"
  /\ UNCHANGED <<config, result, rr_index, idx, requests, summary, calls, algorithm,
                 pc, threads, stop_event, selected, retval>>

\* selected.receive_request(id + 1, size)
Receive ==
  /\ dpc = "receive"
  /\ ~InvalidRequest(request_sizes[sent + 1])
  /\ pending_requests' =
       [pending_requests EXCEPT
          ![selected] = receive_request(@, sent + 1, request_sizes[sent + 1])]
  /\ assigned' = Append(assigned, selected)
  /\ sent' = sent + 1
  /\ keys' = <<>>
  /\ dpc' = "select"
  /\ UNCHANGED <<config, result, rr_index, idx, requests, summary, calls, algorithm,
                 pc, threads, stop_event, selected, retval>>

\* the for loop of send_requests is exhausted: the thread ends
DispatcherEnd ==
  /\ dpc = "select"
  /\ sent = N
  /\ dpc' = "done"
  /\ UNCHANGED <<config, pending_requests, result, rr_index, idx, requests, summary,
                 calls, algorithm, pc, threads, stop_event, sent, keys, selected,
                 assigned, retval>>

\* ---------------------------------------------------------------- workers
\* Server.process: the queue is not empty, one request is dequeued and recorded
WorkerProcess(s) ==
  /\ s \in 1..Len(threads)
  /\ threads[s] = "running"
  /\ pending_requests[s] # <<>>
  /\ result' = [result EXCEPT ![s] = Append(@, process_record(s, Head(pending_requests[s])))]
  /\ pending_requests' = [pending_requests EXCEPT ![s] = Tail(@)]
  /\ UNCHANGED <<config, rr_index, idx, requests, summary, calls, algorithm, pc,
                 threads, stop_event, dpc, sent, keys, selected, assigned, retval>>

\* Server.process: the queue is empty and the stop signal is raised, the loop ends
WorkerExit(s) ==
  /\ s \in 1..Len(threads)
  /\ threads[s] = "running"
  /\ pending_requests[s] = <<>>
  /\ stop_event
  /\ threads' = [threads EXCEPT ![s] = "exited"]
  /\ UNCHANGED <<config, pending_requests, result, rr_index, idx, requests, summary,
                 calls, algorithm, pc, stop_event, dpc, sent, keys, selected, assigned,
                 retval>>

\* ------------------------------------------------------------------- Next
MainStep ==
  \/ Call
  \/ ResetServers
  \/ StartWorker
  \/ StartDispatcher
  \/ JoinDispatcher
  \/ SetStop
  \/ JoinWorkers
  \/ Collect
  \/ Metrics
  \/ Store

DispatcherStep ==
  \/ SelectRoundRobin
  \/ SelectWeighted
  \/ SelectMin
  \/ SelectReturn
  \/ Receive
  \/ DispatcherEnd

WorkerStep(s) ==
  \/ WorkerProcess(s)
  \/ WorkerExit(s)

Next ==
  \/ MainStep
  \/ DispatcherStep
  \/ \E s \in 1..MaxServers : WorkerStep(s)

Spec == Init /\ [][Next]_vars

\* ------------------------------------------------- other callers and faults
\* the same registered policy run twice in a row on the same inputs
InitRerun ==
  InitWith(Pools(Bandwidths, 1), SizeSeqs(Sizes), {<<a, a>> : a \in algorithm_map})

SpecRerun == InitRerun /\ [][Next]_vars

\* select_fn(servers) raises inside the dispatcher thread: the modulo by
\* len(servers) or len(weighted_list) divides by zero, min() of an empty pool
\* raises ValueError; nothing catches it and the thread ends
SelectRaise ==
  /\ dpc = "select"
  /\ sent < N
  /\ \/ algorithm = "Round Robin" /\ n = 0
     \/ algorithm = "Weighted RR" /\ Len(weighted_list) = 0
     \/ algorithm \in {"Least Conn", "Optimized"} /\ n = 0
  /\ dpc' = "raised"
  /\ UNCHANGED <<config, pending_requests, result, rr_index, idx, requests, summary,
                 calls, algorithm, pc, threads, stop_event, sent, keys, selected,
                 assigned, retval>>

\* selected.receive_request raises inside the dispatcher thread; nothing
\* catches it and the thread ends
ReceiveRaise ==
  /\ dpc = "receive"
  /\ InvalidRequest(request_sizes[sent + 1])
  /\ dpc' = "raised"
  /\ UNCHANGED <<config, pending_requests, result, rr_index, idx, requests, summary,
                 calls, algorithm, pc, threads, stop_event, sent, keys, selected,
                 assigned, retval>>

\* one call of run_simulation on any pool (empty, or with bandwidths below 1)
\* and any sizes (zero included)
InitCaller ==
  InitWith(Pools(Bandwidths \cup {1}, 0), SizeSeqs(Sizes \cup {0}),
           {<<a>> : a \in algorithm_map})

NextCaller ==
  \/ Next
  \/ SelectRaise
  \/ ReceiveRaise

SpecCaller == InitCaller /\ [][NextCaller]_vars

\* Server.process fails on the request it has dequeued: the worker thread ends
\* with the exception, without a record
WorkerFail(s) ==
  /\ s \in 1..Len(threads)
  /\ threads[s] = "running"
  /\ pending_requests[s] # <<>>
  /\ pending_requests' = [pending_requests EXCEPT ![s] = Tail(@)]
  /\ threads' = [threads EXCEPT ![s] = "failed"]
  /\ UNCHANGED <<config, result, rr_index, idx, requests, summary, calls, algorithm,
                 pc, stop_event, dpc, sent, keys, selected, assigned, retval>>

InitFault ==
  InitWith(Pools(Bandwidths, 1), SizeSeqs(Sizes), {<<a>> : a \in algorithm_map})

NextFault ==
  \/ Next
  \/ \E s \in 1..MaxServers : WorkerFail(s)

SpecFault == InitFault /\ [][NextFault]_vars

\* every thread that can run is scheduled
Fairness ==
  /\ WF_vars(MainStep)
  /\ WF_vars(DispatcherStep)
  /\ \A s \in 1..MaxServers : WF_vars(WorkerStep(s))

FairSpec == Spec /\ Fairness

\* the closure algorithm_map["Weighted RR"] called directly, call after call;
\* assigned keeps the servers it returned
CallWeighted ==
  /\ pc = "idle"
  /\ idx < MaxSelections
  /\ Len(weighted_list) > 0
  /\ selected' = weighted_round_robin(idx)
  /\ idx' = idx + 1
  /\ assigned' = Append(assigned, weighted_round_robin(idx))
  /\ UNCHANGED <<config, pending_requests, result, rr_index, requests, summary, calls,
                 algorithm, pc, threads, stop_event, dpc, sent, keys, retval>>

\* pools of servers with int(bandwidth) 0, 1, 2 and 3, and no run
InitSelect == InitWith(Pools(Bandwidths \cup {1, 7}, 1), {<<>>}, {<<>>})

NextSelect == CallWeighted

SpecSelect == InitSelect /\ [][NextSelect]_vars

\* a lookup that fails only after the servers were reset
LookupRaise_AfterReset ==
  /\ pc = "idle"
  /\ calls < Len(plan)
  /\ plan[calls + 1] \notin algorithm_map
  /\ calls' = calls + 1
  /\ algorithm' = plan[calls + 1]
  /\ pending_requests' = [s \in Pool |-> reset]
  /\ result' = [s \in Pool |-> reset]
  /\ pc' = "raised"
  /\ UNCHANGED <<config, rr_index, idx, requests, summary, threads, stop_event, dpc,
                 sent, keys, selected, assigned, retval>>

\* run_simulation is called with a name that is no key of algorithm_map:
\* algorithm_map[algorithm] raises KeyError, which leaves run_simulation and
\* the driver
LookupRaise ==
  /\ pc = "idle"
  /\ calls < Len(plan)
  /\ plan[calls + 1] \notin algorithm_map
  /\ calls' = calls + 1
  /\ algorithm' = plan[calls + 1]
  /\ pc' = "raised"
  /\ UNCHANGED <<config, pending_requests, result, rr_index, idx, requests, summary,
                 threads, stop_event, dpc, sent, keys, selected, assigned, retval>>

\* a run of a registered policy, then a call with an unknown name
InitUnknown ==
  InitWith(Pools(Bandwidths, 1), SizeSeqs(Sizes),
           {<<a, "Unknown">> : a \in algorithm_map})

NextUnknown ==
  \/ Next
  \/ LookupRaise

SpecUnknown == InitUnknown /\ [][NextUnknown]_vars

\* ----------------------------------------------------------------- claims
\* request id is in the pending queue or the result history of server s
Holds(s, id) ==
  \/ \E i \in 1..Len(pending_requests[s]) : pending_requests[s][i][1] = id
  \/ \E i \in 1..Len(result[s]) : result[s][i][1] = id

\* number of result records of request id on server s
Records(s, id) == Cardinality({i \in 1..Len(result[s]) : result[s][i][1] = id})

Joined == pc \in {"collect", "metrics", "returned"}

\* C1: once run_simulation has joined all workers, the total_requests of the
\* servers sum to the number of requests, and every request id 1..N has exactly
\* one result record, on the server the policy selected for it.
C1_NoRequestLostOrDuplicated ==
  Joined =>
    /\ SumSeq([s \in Pool |-> total_requests(s)]) = N
    /\ Len(assigned) = N
    /\ \A id \in 1..N : \A s \in Pool :
         Records(s, id) = IF s = assigned[id] THEN 1 ELSE 0

\* a later run of the experiment has joined its workers with records on two servers
C1_Witness ==
  /\ pc = "collect"
  /\ calls = 3
  /\ N >= 3
  /\ n = 2
  /\ \A s \in Pool : result[s] # <<>>

\* C2: under round-robin the k-th request of a run is enqueued on
\* pool[(k-1) mod n], whatever the sizes and however fast the workers drain.
C2_RoundRobinAssignment ==
  algorithm = "Round Robin" =>
    \A k \in 1..Len(assigned) :
      /\ assigned[k] = ((k - 1) % n) + 1
      /\ Holds(((k - 1) % n) + 1, k)

\* 2 servers and 3 requests were assigned [A, B, A]
C2_Witness ==
  /\ algorithm = "Round Robin"
  /\ n = 2
  /\ N = 3
  /\ assigned = <<1, 2, 1>>

\* C6: within a run the stop signal is raised once, never cleared, and raised
\* only after the dispatcher has submitted every request: it is never set while
\* a request of the run has not been enqueued.
C6_StopOnlyAfterAllSubmitted ==
  [][/\ stop_event' =>
          /\ dpc' = "done"
          /\ sent' = N
          /\ \A id \in 1..N : \E s \in Pool : Holds(s, id)'
     /\ (stop_event /\ pc' # "idle") => stop_event'
     /\ pc' \in {"join_workers", "collect", "metrics", "returned"} => stop_event'
    ]_vars

\* the stop signal is raised while a worker still has requests to drain
C6_Witness ==
  /\ stop_event
  /\ N >= 2
  /\ \E s \in Pool : Len(pending_requests[s]) >= 2

\* C7: a worker leaves its loop only with its own queue empty and the stop
\* signal raised, and nothing is in the queue of a server whose worker exited.
C7_DrainBeforeStop ==
  [][\A s \in 1..Len(threads') :
       threads'[s] = "exited" =>
         /\ pending_requests'[s] = <<>>
         /\ (threads[s] = "running" => pending_requests[s] = <<>> /\ stop_event)
    ]_vars

\* a worker has exited after draining two requests while another still drains
C7_Witness ==
  /\ n = 2
  /\ Len(threads) = 2
  /\ \E s \in Pool :
       /\ threads[s] = "exited"
       /\ Len(result[s]) >= 2
       /\ threads[3 - s] = "running"
       /\ pending_requests[3 - s] # <<>>

\* C5 as stated: when least-connections returns, the returned server's queue is
\* no longer than any queue of the pool at that moment.
C5_MinimumAtReturn ==
  [][(algorithm = "Least Conn" /\ dpc = "select" /\ dpc' = "receive") =>
       \A s \in Pool :
         Len(pending_requests'[selected']) <= Len(pending_requests'[s])
    ]_vars

\* C5 amended: the queue of the server least-connections returned is, from the
\* moment the selection returns until the request is enqueued, no longer than
\* the length the policy read from any server of the pool during that selection.
C5_MinimumOfLengthsRead ==
  (algorithm = "Least Conn" /\ dpc = "receive") =>
    /\ Len(keys) = n
    /\ \A s \in Pool : Len(pending_requests[selected]) <= keys[s][1]

\* least-connections returned a server with a request pending while the queue
\* of another server, read as non-empty, has been drained by its worker
C5_Witness ==
  /\ algorithm = "Least Conn"
  /\ dpc = "receive"
  /\ Len(pending_requests[selected]) = 1
  /\ \E s \in Pool : keys[s][1] >= 1 /\ pending_requests[s] = <<>>

\* C3 as stated: the second of two runs in a row with the same pool, requests
\* and policy object returns the per-server totals the first returned, for
\* round-robin and weighted round-robin.
C3_SameTotalsTwice ==
  (pc = "returned" /\ calls = 2 /\ algorithm \in {"Round Robin", "Weighted RR"}) =>
    retval[1] = summary[algorithm][1]

\* C4 as stated: with an empty pool and a non-empty request list the run fails;
\* the harness never goes on to collect results and return metrics.
C4_EmptyPoolFails ==
  (n = 0 /\ N > 0) => ~Joined

\* C8: under fair scheduling every run with a non-empty pool eventually
\* completes: the dispatcher has finished, the stop signal is raised, every
\* worker has exited and run_simulation has returned.
C8_RunCompletes ==
  (pc = "reset") ~>
    /\ pc = "returned"
    /\ dpc = "done"
    /\ stop_event
    /\ threads = [s \in Pool |-> "exited"]

\* a run returned in which a worker's queue stayed empty throughout
C8_Witness ==
  /\ pc = "returned"
  /\ N >= 1
  /\ n = 2
  /\ \E s \in Pool : result[s] = <<>> /\ threads[s] = "exited"

\* C9 as stated: after an error raised during dispatch the run does not return
\* and appends no trace entry.
C9_DispatchErrorAborts ==
  dpc = "raised" =>
    /\ pc # "returned"
    /\ \A id \in 1..N : Len(requests[id]) < calls

\* C10 as stated: after a worker failed the run does not complete as if it had
\* succeeded.
C10_WorkerFailurePropagates ==
  (\E s \in 1..Len(threads) : threads[s] = "failed") => ~Joined

\* W, the sum of the integer parts of the bandwidths
SumFloor == SumSeq([s \in Pool |-> bandwidth[s] \div BwDen])

\* how often server s is among selections from + 1 .. from + len of assigned
CountIn(s, from, len) ==
  Cardinality({k \in (from + 1)..(from + len) : assigned[k] = s})

\* C11: in every window of W = sum of floor(bandwidth_j) consecutive selections
\* of weighted round-robin that starts at a multiple of W, server i is
\* returned exactly floor(bandwidth_i) times.
C11_WeightedProportion ==
  \A m \in 0..MaxSelections :
    (m + 1) * SumFloor <= Len(assigned) =>
      \A s \in Pool : CountIn(s, m * SumFloor, SumFloor) = bandwidth[s] \div BwDen

\* three full windows of a pool with weights 3 and 1 have been selected
C11_Witness ==
  /\ bandwidth = <<7, 2>>
  /\ Len(assigned) = 12
  /\ CountIn(1, 0, 12) = 9
  /\ CountIn(2, 0, 12) = 3

\* C12: after the driver has run every registered policy, each request's list
\* holds exactly one entry per policy, in the order the policies were run, and
\* the entry of a policy names the server that policy's run enqueued the
\* request on.
C12_OneTraceEntryPerPolicy ==
  \A id \in 1..N :
    /\ pc \in {"idle", "metrics", "returned"} => Len(requests[id]) = calls
    /\ \A j \in 1..Len(requests[id]) : requests[id][j].name = plan[j]
    /\ pc \in {"metrics", "returned"} =>
         requests[id][calls].server = assigned[id]

\* the four runs are over and a request was served by different servers
C12_Witness ==
  /\ pc = "idle"
  /\ calls = 4
  /\ N = 3
  /\ \E id \in 1..N : requests[id][3].server # requests[id][4].server

\* C13: with at least one processed request the fairness index is in (0, 1];
\* it is 1 when all servers have equal totals, and 0 when every total is 0.
C13_FairnessIndexRange ==
  pc = "returned" =>
    LET xs == retval[1]
        f == retval[2]
    IN  /\ SumSeq(xs) >= 1 => (0 < f[1] /\ f[1] <= f[2])
        /\ (SumSeq(xs) >= 1 /\ \A s \in Pool : xs[s] = xs[1]) => f[1] = f[2]
        /\ SumSeq(xs) = 0 => f[1] = 0

\* a run returned an index below 1 for unequal totals
C13_Witness ==
  /\ pc = "returned"
  /\ retval[1] = <<2, 1>>
  /\ retval[2] = <<9, 10>>

\* C14: a call with a name that is not in the registry fails before any server
\* is reset, before any thread is started and before any trace entry is
\* appended: queues, result histories and trace are as they were.
C14_UnknownPolicyBeforeRun ==
  [][(plan[calls' ] \notin algorithm_map /\ calls' >= 1) =>
       /\ pc' = "raised"
       /\ UNCHANGED <<pending_requests, result, requests, summary>>
       /\ threads' = <<>>
       /\ dpc' = "none"
       /\ ~stop_event'
    ]_vars

\* the call with the unknown name has failed with the records of the run
\* before it still on the servers
C14_Witness ==
  /\ pc = "raised"
  /\ calls = 2
  /\ \E s \in Pool : Len(result[s]) >= 2
  /\ \A id \in 1..N : Len(requests[id]) = 1

\* a thread of the running or of an earlier run is alive
WorkerAlive == \E s \in 1..Len(threads) : threads[s] = "running"
DispatcherAlive == dpc \in {"select", "receive"}

\* C15: runs never overlap: once run_simulation has passed its joins, and
\* until the next run has reset the servers, no worker and no dispatcher is
\* alive; a dispatcher is started only when there is none.
C15_RunsNeverOverlap ==
  /\ pc \in {"collect", "metrics", "returned", "idle", "reset"} =>
       ~WorkerAlive /\ ~DispatcherAlive
  /\ pc = "start_workers" => dpc = "none"

\* the second run is about to reset servers that hold the records of the first
C15_Witness ==
  /\ pc = "reset"
  /\ calls = 2
  /\ \A s \in Pool : result[s] # <<>>
  /\ ~WorkerAlive
  /\ ~DispatcherAlive

\* C16: every worker is started before the dispatcher, and the dispatcher
\* works in input order: while it selects or enqueues for request sent + 1,
\* requests 1..sent have been selected for and enqueued (each is with the
\* server selected for it) and no later request has been touched.
C16_WorkersFirstThenInOrder ==
  /\ dpc # "none" => Len(threads) = n
  /\ DispatcherAlive =>
       /\ Len(assigned) = sent
       /\ sent < N \/ dpc = "select"
       /\ \A id \in 1..N : \A s \in Pool :
            Holds(s, id) <=> (id <= sent /\ assigned[id] = s)
  /\ dpc = "done" => sent = N

\* the dispatcher is selecting for the third request while a worker has
\* already processed an earlier one
C16_Witness ==
  /\ dpc = "select"
  /\ sent = 2
  /\ Len(keys) = 1
  /\ \E s \in Pool : result[s] # <<>>
  /\ \E s \in Pool : pending_requests[s] # <<>>

\* s is the lowest-index server of the pool whose key k is minimal
LowestMinimal(s, k(_)) ==
  /\ \A o \in Pool : ~Less(k(o), k(s))
  /\ \A o \in 1..(s - 1) : Less(k(s), k(o))

QueueLength(s) == <<Len(pending_requests[s]), 1>>
PendingBytesPerBandwidth(s) ==
  <<SumSeq([i \in 1..Len(pending_requests[s]) |-> pending_requests[s][i][2]]) * BwDen,
    bandwidth[s]>>

\* C17: when the keys min() has read are those of the queues at the moment
\* it returns (no worker dequeued in between), least-connections returns the
\* lowest-index server with the fewest pending requests and latency-optimized
\* the lowest-index server with the least pending bytes / bandwidth; the steps
\* of the selection leave every queue and every result history as they were.
C17_LowestIndexMinimum ==
  [][/\ (dpc = "select" /\ dpc' = "receive" /\ algorithm = "Least Conn"
          /\ \A s \in Pool : keys[s] = QueueLength(s))
         => LowestMinimal(selected', QueueLength)
     /\ (dpc = "select" /\ dpc' = "receive" /\ algorithm = "Optimized"
          /\ \A s \in Pool : keys[s] = PendingBytesPerBandwidth(s))
         => LowestMinimal(selected', PendingBytesPerBandwidth)
     /\ (dpc = "select" /\ (keys' # keys \/ selected' # selected))
         => UNCHANGED <<pending_requests, result>>
    ]_vars

\* least-connections has returned the first of two servers that both hold one
\* pending request
C17_Witness ==
  /\ algorithm = "Least Conn"
  /\ dpc = "receive"
  /\ n = 2
  /\ sent = 2
  /\ \A s \in Pool : Len(pending_requests[s]) = 1 /\ keys[s] = QueueLength(s)
  /\ selected = 1

\* number of entries of request id in the pending queue of server s
InQueue(s, id) ==
  Cardinality({i \in 1..Len(pending_requests[s]) : pending_requests[s][i][1] = id})

\* C18: each request id is in at most one pending queue (and there once), and
\* an id that has a result record is in no pending queue.
C18_AtMostOneQueue ==
  \A id \in 1..N :
    /\ SumSeq([s \in Pool |-> InQueue(s, id)]) <= 1
    /\ (\E s \in Pool : Records(s, id) >= 1) =>
         SumSeq([s \in Pool |-> InQueue(s, id)]) = 0

\* two requests wait in the queues of two servers while a third has its record
C18_Witness ==
  /\ n = 2
  /\ \A s \in Pool : Len(pending_requests[s]) = 1
  /\ \E s \in Pool : Len(result[s]) = 1

\* C19: the request ids of each server's result history are strictly
\* increasing.
C19_ResultIdsIncreasing ==
  \A s \in Pool :
    \A i \in 1..Len(result[s]) : \A j \in 1..Len(result[s]) :
      i < j => result[s][i][1] < result[s][j][1]

\* a server has processed requests 1 and 3, the other server request 2
C19_Witness ==
  \E s \in Pool :
    /\ Len(result[s]) = 2
    /\ result[s][1][1] = 1
    /\ result[s][2][1] = 3
    /\ \E o \in Pool : o # s /\ Len(result[o]) = 1

\* C20: in a run of weighted round-robin from a fresh policy, the first
\* int(bandwidth of the first server) selections return the first server, a
\* server whose int(bandwidth) is 0 is never selected, and with
\* N <= int(bandwidth of the first server) no other server gets a request:
\* every request the dispatcher submits is on the first server.
C20_ContiguousBlocks ==
  (algorithm = "Weighted RR" /\ n >= 1) =>
    /\ \A k \in 1..Len(assigned) :
         /\ k <= IntBandwidth(1) => assigned[k] = 1
         /\ IntBandwidth(assigned[k]) >= 1
    /\ (dpc = "receive" /\ sent < IntBandwidth(1)) => selected = 1
    /\ dpc = "receive" => IntBandwidth(selected) >= 1
    /\ N <= IntBandwidth(1) =>
         /\ \A s \in Pool : s # 1 => pending_requests[s] = <<>> /\ result[s] = <<>>
         /\ dpc = "done" => \A id \in 1..N : Holds(1, id)

\* two requests, a first server of bandwidth 2.5 and a second of bandwidth 0.5:
\* the run has returned with both requests processed by the first server
C20_Witness ==
  /\ algorithm = "Weighted RR"
  /\ pc = "returned"
  /\ bandwidth = <<5, 1>>
  /\ N = 2
  /\ retval[1] = <<2, 0>>

====
